---- MODULE Spec2Model ----
(***************************************************************************)
(* Model of src/api/core/configs/_api.py: the pydantic model ApiConfig,    *)
(* its "before" model validator _check_args, its field validators          *)
(* _check_slug, _check_prefix, _check_docs, _check_paths, and the frozen   *)
(* subclass FrozenApiConfig.                                               *)
(*                                                                         *)
(* One construction of the model is one behaviour: the raw mapping and     *)
(* sys.argv are chosen in Init, CheckArgs runs the "before" validator on   *)
(* the raw mapping, then one action per declared field validates that     *)
(* field in declaration order (pydantic validates every field, collecting  *)
(* the errors, and a field that failed is absent from info.data), Finish   *)
(* builds the instance or raises, and SetAttr is an attribute assignment   *)
(* on the built instance.  Strings are TLA+ strings handled a character at *)
(* a time, so that startswith, endswith, split, lower, strip, replace,     *)
(* int() and str.format are computed the way Python computes them.         *)
(***************************************************************************)
EXTENDS Integers, Sequences, FiniteSets, TLC

VARIABLES argv, raw, cls, pc, values, data, errors, exc, log, cfg, setattr

vars == <<argv, raw, cls, pc, values, data, errors, exc, log, cfg, setattr>>

-----------------------------------------------------------------------------
(* Python string primitives.                                               *)

Char(s, i) == SubSeq(s, i, i)

StartsWith(s, p) == Len(s) >= Len(p) /\ SubSeq(s, 1, Len(p)) = p

EndsWith(s, p) == Len(s) >= Len(p) /\ SubSeq(s, Len(s) - Len(p) + 1, Len(s)) = p

\* sub in s
Contains(s, sub) ==
    \E i \in 1..(Len(s) - Len(sub) + 1) : SubSeq(s, i, i + Len(sub) - 1) = sub

\* s.find(sub) as a 1-based position, 0 when sub does not occur
Find(s, sub) ==
    IF Contains(s, sub)
    THEN CHOOSE i \in 1..(Len(s) - Len(sub) + 1) :
            /\ SubSeq(s, i, i + Len(sub) - 1) = sub
            /\ \A j \in 1..(i - 1) : SubSeq(s, j, j + Len(sub) - 1) # sub
    ELSE 0

RECURSIVE LStrip(_)
LStrip(s) == IF Len(s) > 0 /\ Char(s, 1) = " " THEN LStrip(Tail(s)) ELSE s

RECURSIVE RStrip(_)
RStrip(s) ==
    IF Len(s) > 0 /\ Char(s, Len(s)) = " "
    THEN RStrip(SubSeq(s, 1, Len(s) - 1))
    ELSE s

\* s.strip(), and pydantic's strip_whitespace
Strip(s) == RStrip(LStrip(s))

UpperChars == "ABCDEFGHIJKLMNOPQRSTUVWXYZ"
LowerChars == "abcdefghijklmnopqrstuvwxyz"

LowerChar(c) ==
    IF Contains(UpperChars, c)
    THEN LET k == Find(UpperChars, c) IN Char(LowerChars, k)
    ELSE c

\* s.lower()
RECURSIVE Lower(_)
Lower(s) == IF Len(s) = 0 THEN "" ELSE LowerChar(Char(s, 1)) \o Lower(Tail(s))

\* s.replace(a, b) for a single character a
RECURSIVE Replace(_, _, _)
Replace(s, a, b) ==
    IF Len(s) = 0 THEN ""
    ELSE (IF Char(s, 1) = a THEN b ELSE Char(s, 1)) \o Replace(Tail(s), a, b)

\* s.split("=")[1]: the text between the first "=" and the next one (or the
\* end).  Only applied to strings that start with "--host=" or "--port=".
SplitEq1(s) ==
    LET rest == SubSeq(s, Find(s, "=") + 1, Len(s))
        nxt  == Find(rest, "=")
    IN  IF nxt = 0 THEN rest ELSE SubSeq(rest, 1, nxt - 1)

DigitChars == "0123456789"

IsDigits(s) == Len(s) > 0 /\ \A i \in 1..Len(s) : Contains(DigitChars, Char(s, i))

RECURSIVE DigitsValue(_)
DigitsValue(s) ==
    IF Len(s) = 0 THEN 0
    ELSE 10 * DigitsValue(SubSeq(s, 1, Len(s) - 1))
         + (Find(DigitChars, Char(s, Len(s))) - 1)

\* int(s): the value of a string of decimal digits (blanks around it
\* ignored), ValueError for the other strings of the model, none of which is
\* a signed or underscored literal
ParseInt(s) ==
    IF IsDigits(Strip(s))
    THEN [ok |-> TRUE, n |-> DigitsValue(Strip(s))]
    ELSE [ok |-> FALSE, n |-> 0]

\* s.format(key=val): "{{" and "}}" are escapes, "{key}" is replaced by val
\* verbatim (the value is not scanned again), any other "{name}" raises
\* KeyError ("{}" raises IndexError), and a lone brace raises ValueError.
\* Field names are plain names: no conversion, format spec, attribute or index.
RECURSIVE Format(_, _, _)
Format(s, key, val) ==
    IF Len(s) = 0 THEN [err |-> "none", s |-> ""]
    ELSE LET c == Char(s, 1) IN
      IF c = "{" THEN
        IF Len(s) >= 2 /\ Char(s, 2) = "{"
        THEN LET r == Format(SubSeq(s, 3, Len(s)), key, val)
             IN  IF r.err = "none" THEN [err |-> "none", s |-> "{" \o r.s] ELSE r
        ELSE LET close == Find(s, "}") IN
          IF close = 0 THEN [err |-> "ValueError", s |-> ""]
          ELSE LET name == SubSeq(s, 2, close - 1) IN
            IF Contains(name, "{") THEN [err |-> "ValueError", s |-> ""]
            ELSE IF name = "" THEN [err |-> "IndexError", s |-> ""]
            ELSE IF name # key THEN [err |-> "KeyError", s |-> ""]
            ELSE LET r == Format(SubSeq(s, close + 1, Len(s)), key, val)
                 IN  IF r.err = "none" THEN [err |-> "none", s |-> val \o r.s] ELSE r
      ELSE IF c = "}" THEN
        IF Len(s) >= 2 /\ Char(s, 2) = "}"
        THEN LET r == Format(SubSeq(s, 3, Len(s)), key, val)
             IN  IF r.err = "none" THEN [err |-> "none", s |-> "}" \o r.s] ELSE r
        ELSE [err |-> "ValueError", s |-> ""]
      ELSE LET r == Format(Tail(s), key, val)
           IN  IF r.err = "none" THEN [err |-> "none", s |-> c \o r.s] ELSE r

\* dict assignment d[k] = v
Put(d, k, v) == [x \in (DOMAIN d) \cup {k} |-> IF x = k THEN v ELSE d[x]]

\* a mapping without key k
Drop(d, k) == [x \in (DOMAIN d) \ {k} |-> d[x]]

-----------------------------------------------------------------------------
(* Bounds of the model and constants of the program.                       *)

\* the largest number of launch arguments after the program name
MaxArgs == 2

NameMinLen == 2
NameMaxLen == 128
PortMin == 80
PortMax == 65536
VersionMinLen == 1
VersionMaxLen == 16
PrefixMaxLen == 128
GzipMax == 10485760

\* HTTPSchemeEnum
HTTPSchemes == {"http", "https"}

\* A raw Python value whose truth value and whose validation as a bool differ:
\* a bool, or a string such as "false" (non-empty, hence truthy).
PyBool(b) == [t |-> "bool", b |-> b, s |-> ""]
PyStr(s) == [t |-> "str", b |-> FALSE, s |-> s]

\* Python's truth value of x, as in "elif x:"
Truthy(x) == IF x.t = "bool" THEN x.b ELSE Len(x.s) > 0

-----------------------------------------------------------------------------
(* ApiConfig._check_args: the "before" model validator.                    *)

IsLauncher(prog) ==
    \/ EndsWith(prog, "uvicorn")
    \/ EndsWith(prog, "fastapi")
    \/ EndsWith(prog, "gunicorn")

\* One iteration of "for _i, _arg in enumerate(sys.argv)"; av[i] is
\* sys.argv[i - 1], so "_i + 1 < len(sys.argv)" is i < Len(av).
ScanStep(st, av, i) ==
    LET arg    == av[i]
        v1     == IF StartsWith(arg, "--ssl")
                  THEN Put(st.values, "http_scheme", "https")
                  ELSE st.values
        hostEq == StartsWith(arg, "--host=")
        hostSp == (~hostEq) /\ arg = "--host" /\ i < Len(av)
        v2     == IF hostEq THEN Put(v1, "bind_host", SplitEq1(arg))
                  ELSE IF hostSp THEN Put(v1, "bind_host", av[i + 1])
                  ELSE v1
        portEq == StartsWith(arg, "--port=")
        portSp == (~portEq) /\ arg = "--port" /\ i < Len(av)
        p      == IF portEq THEN ParseInt(SplitEq1(arg)) ELSE ParseInt(av[i + 1])
        hh     == st.has_host \/ hostEq \/ hostSp
    IN  IF (portEq \/ portSp) /\ ~p.ok
        THEN [values |-> v2, has_host |-> hh, exc |-> "ValueError"]
        ELSE IF portEq \/ portSp
        THEN [values |-> Put(v2, "port", p.n), has_host |-> hh, exc |-> "none"]
        ELSE [values |-> v2, has_host |-> hh, exc |-> "none"]

\* ScanArgs changed to let the first matching flag of a key win: the
\* arguments after i are applied first, argument i over them.
RECURSIVE ScanArgs_FirstWins(_, _, _)
ScanArgs_FirstWins(st, av, i) ==
    IF i > Len(av) \/ st.exc # "none" THEN st
    ELSE LET later == ScanArgs_FirstWins(st, av, i + 1)
         IN  IF later.exc # "none" THEN later ELSE ScanStep(later, av, i)

RECURSIVE ScanArgs(_, _, _)
ScanArgs(st, av, i) ==
    IF i > Len(av) \/ st.exc # "none" THEN st
    ELSE ScanArgs(ScanStep(st, av, i), av, i + 1)

\* "if not _has_host:" with its unguarded read of sys.argv[1]
DefaultHost(st, av) ==
    IF st.has_host THEN st
    ELSE IF ~EndsWith(av[1], "fastapi")
    THEN [st EXCEPT !.values = Put(st.values, "bind_host", "127.0.0.1")]
    ELSE IF Len(av) < 2
    THEN [st EXCEPT !.values = Put(st.values, "bind_host", "127.0.0.1"),
                    !.exc = "IndexError"]
    ELSE IF av[2] = "run"
    THEN [st EXCEPT !.values = Put(st.values, "bind_host", "0.0.0.0")]
    ELSE [st EXCEPT !.values = Put(st.values, "bind_host", "127.0.0.1")]

\* check_args changed to scan the arguments whatever the program name is.
check_args_AnyProgram(vals, av) ==
    LET scanned == ScanArgs([values |-> vals, has_host |-> FALSE, exc |-> "none"], av, 1)
    IN  IF scanned.exc # "none" THEN scanned ELSE DefaultHost(scanned, av)

\* The whole validator: the values it returns, or the exception it raises.
check_args(vals, av) ==
    IF IsLauncher(av[1])
    THEN LET scanned == ScanArgs([values |-> vals, has_host |-> FALSE, exc |-> "none"], av, 1)
         IN  IF scanned.exc # "none" THEN scanned ELSE DefaultHost(scanned, av)
    ELSE IF Truthy(vals["security"]["ssl"]["enabled"])
    THEN [values |-> Put(vals, "http_scheme", "https"), has_host |-> FALSE, exc |-> "none"]
    ELSE [values |-> vals, has_host |-> FALSE, exc |-> "none"]

-----------------------------------------------------------------------------
(* Field validation: the declared constraint of each field (pydantic's own *)
(* validation), followed, when that passed, by the field's "after"         *)
(* validator.  A result is [err, v]: err is "none", "invalid" (a           *)
(* validation error, collected) or the name of an uncaught exception.      *)

Valid(v) == [err |-> "none", v |-> v]
Invalid == [err |-> "invalid", v |-> ""]
Raised(e) == [err |-> e, v |-> ""]

\* constr(strip_whitespace=True) with Field(..., min_length, max_length): a
\* required str, stripped, then length-checked
StrField(vals, field, minLen, maxLen) ==
    IF field \notin DOMAIN vals THEN Invalid
    ELSE LET s == Strip(vals[field])
         IN  IF Len(s) >= minLen /\ Len(s) <= maxLen THEN Valid(s) ELSE Invalid

\* A ValueError raised inside a field validator is a validation error of the
\* field; any other exception leaves the constructor uncaught.
FromFormat(r) ==
    IF r.err = "none" THEN Valid(r.s)
    ELSE IF r.err = "ValueError" THEN Invalid
    ELSE Raised(r.err)

\* ApiConfig._check_slug
check_slug(val, info) ==
    IF val = "" /\ "name" \in DOMAIN info
    THEN Replace(Replace(Replace(Strip(Lower(info["name"])), " ", "-"), "_", "-"), ".", "-")
    ELSE val

\* the slug field: its constraint, then _check_slug on the constrained value
SlugField(vals, info) ==
    LET core == StrField(vals, "slug", NameMinLen, NameMaxLen)
    IN  IF core.err = "none" THEN Valid(check_slug(core.v, info)) ELSE core

\* check_prefix changed to leave the placeholder unexpanded.
check_prefix_NoExpand(val, info) == [err |-> "none", s |-> val]

\* ApiConfig._check_prefix
check_prefix(val, info) ==
    IF val # "" /\ Contains(val, "{api_version}") /\ "version" \in DOMAIN info
    THEN Format(val, "api_version", info["version"])
    ELSE [err |-> "none", s |-> val]

PrefixField(vals, info) ==
    LET core == StrField(vals, "prefix", 0, PrefixMaxLen)
    IN  IF core.err = "none" THEN FromFormat(check_prefix(core.v, info)) ELSE core

\* http_scheme: HTTPSchemeEnum with default http
SchemeField(vals) ==
    IF "http_scheme" \notin DOMAIN vals THEN Valid("http")
    ELSE IF vals["http_scheme"] \in HTTPSchemes THEN Valid(vals["http_scheme"])
    ELSE Invalid

\* PortField changed to accept the upper bound itself (le for lt).
PortField_Inclusive(vals) ==
    IF "port" \notin DOMAIN vals THEN Invalid
    ELSE IF vals["port"] >= PortMin /\ vals["port"] <= PortMax THEN Valid(vals["port"])
    ELSE Invalid

\* port: int = Field(..., ge=80, lt=65536)
PortField(vals) ==
    IF "port" \notin DOMAIN vals THEN Invalid
    ELSE IF vals["port"] >= PortMin /\ vals["port"] < PortMax THEN Valid(vals["port"])
    ELSE Invalid

\* gzip_min_size: int = Field(..., ge=0, le=10_485_760)
GzipField(vals) ==
    IF "gzip_min_size" \notin DOMAIN vals THEN Invalid
    ELSE IF vals["gzip_min_size"] >= 0 /\ vals["gzip_min_size"] <= GzipMax
    THEN Valid(vals["gzip_min_size"])
    ELSE Invalid

\* a bool field read from a raw value: a bool, or one of the strings pydantic
\* accepts for a bool
BoolField(x) ==
    IF x.t = "bool" THEN Valid(x.b)
    ELSE IF x.s \in {"1", "on", "t", "true", "y", "yes"} THEN Valid(TRUE)
    ELSE IF x.s \in {"0", "off", "f", "false", "n", "no"} THEN Valid(FALSE)
    ELSE Invalid

\* security: SecurityConfig, of which the model keeps ssl.enabled
SecurityField(vals) ==
    IF "security" \notin DOMAIN vals THEN Invalid
    ELSE LET e == BoolField(vals["security"]["ssl"]["enabled"])
         IN  IF e.err = "none" THEN Valid([ssl |-> [enabled |-> e.v]]) ELSE Invalid

\* One "if url and ('{api_prefix}' in url): url = url.format(api_prefix=...)"
ExpandUrl(url, prefix) ==
    IF url # "" /\ Contains(url, "{api_prefix}")
    THEN Format(url, "api_prefix", prefix)
    ELSE [err |-> "none", s |-> url]

\* The first exception of the expansions done in order, "none" without one
FirstErr(rs) ==
    IF \E i \in 1..Len(rs) : rs[i].err # "none"
    THEN rs[CHOOSE i \in 1..Len(rs) :
               rs[i].err # "none" /\ \A j \in 1..(i - 1) : rs[j].err = "none"].err
    ELSE "none"

\* the class val is rebuilt as at the end of _check_docs
DocsSnapshotClass == "FrozenDocsConfig"

\* ApiConfig._check_docs
check_docs(val, info) ==
    IF val.enabled /\ "prefix" \in DOMAIN info
    THEN LET o == ExpandUrl(val.openapi_url, info["prefix"])
             d == ExpandUrl(val.docs_url, info["prefix"])
             r == ExpandUrl(val.redoc_url, info["prefix"])
             w == ExpandUrl(val.swagger_ui_oauth2_redirect_url, info["prefix"])
             e == FirstErr(<<o, d, r, w>>)
         IN  IF e # "none" THEN [err |-> e, s |-> ""]
             ELSE [err |-> "none",
                   s |-> [class |-> DocsSnapshotClass, enabled |-> val.enabled,
                          openapi_url |-> o.s, docs_url |-> d.s, redoc_url |-> r.s,
                          swagger_ui_oauth2_redirect_url |-> w.s]]
    ELSE [err |-> "none", s |-> [val EXCEPT !.class = DocsSnapshotClass]]

DocsField(vals, info) ==
    IF "docs" \notin DOMAIN vals THEN Invalid
    ELSE FromFormat(check_docs(vals["docs"], info))

\* PathsSnapshotClass changed to keep the mutable class.
PathsSnapshotClass_Mutable == "PathsConfig"

\* the class val is rebuilt as at the end of _check_paths
PathsSnapshotClass == "FrozenPathsConfig"

\* "if '{api_slug}' in d: d = d.format(api_slug=slug)"
ExpandSlug(dir, slug) ==
    IF Contains(dir, "{api_slug}") THEN Format(dir, "api_slug", slug)
    ELSE [err |-> "none", s |-> dir]

\* uploads_dir: the slug placeholder if present, elif the {tmp_dir} one
ExpandUploads(dir, slug, tmp) ==
    IF Contains(dir, "{api_slug}") THEN Format(dir, "api_slug", slug)
    ELSE IF Contains(dir, "{tmp_dir}") THEN Format(dir, "tmp_dir", tmp)
    ELSE [err |-> "none", s |-> dir]

\* ApiConfig._check_paths
check_paths(val, info) ==
    IF "slug" \in DOMAIN info
    THEN LET t == ExpandSlug(val.tmp_dir, info["slug"])
             u == IF t.err = "none"
                  THEN ExpandUploads(val.uploads_dir, info["slug"], t.s)
                  ELSE t
             d == ExpandSlug(val.data_dir, info["slug"])
             e == FirstErr(<<t, u, d>>)
         IN  IF e # "none" THEN [err |-> e, s |-> ""]
             ELSE [err |-> "none",
                   s |-> [class |-> PathsSnapshotClass, tmp_dir |-> t.s,
                          uploads_dir |-> u.s, data_dir |-> d.s]]
    ELSE [err |-> "none", s |-> [val EXCEPT !.class = PathsSnapshotClass]]

PathsField(vals, info) ==
    IF "paths" \notin DOMAIN vals THEN Invalid
    ELSE FromFormat(check_paths(vals["paths"], info))

-----------------------------------------------------------------------------
(* Inputs: sys.argv and the raw mapping handed to the constructor.         *)

Programs == {"uvicorn", "fastapi", "/usr/bin/gunicorn", "python"}

ArgPool ==
    {"run", "--ssl-keyfile=k", "--host=10.0.0.1", "--host=h1=x", "--host",
     "--port=9000", "--port=65536", "--port", "8443"}

ArgVectors == UNION {[1..k -> ArgPool] : k \in 0..MaxArgs}

RawSchemes == {"http", "https"}
RawEnabled == {PyBool(TRUE), PyBool(FALSE), PyStr("false")}
RawPorts == {79, 80, 65536}

RawNames == {"My Cool_API.v2", " acme ", "A"}
RawSlugs == {"acme", "", " "}
RawVersions == {"v2", "{api_version}", ""}
RawPrefixes == {"/api/{api_version}", "/api", "{{api_version}}", "/{api_version}/{x}"}
RawOpenapiUrls == {"{api_prefix}/openapi.json", "/openapi.json"}
RawTmpDirs == {"/var/tmp/{api_slug}", "/tmp"}
RawUploadsDirs ==
    {"{tmp_dir}/uploads", "/srv/{api_slug}/uploads", "{tmp_dir}/{api_slug}", "/uploads"}

\* an optional url that is None or empty is "": both are falsy in _check_docs
BaseDocs ==
    [class |-> "DocsConfig", enabled |-> TRUE,
     openapi_url |-> "{api_prefix}/openapi.json", docs_url |-> "{api_prefix}/docs",
     redoc_url |-> "", swagger_ui_oauth2_redirect_url |-> "/oauth2-redirect"]

BasePaths ==
    [class |-> "PathsConfig", tmp_dir |-> "/var/tmp/{api_slug}",
     uploads_dir |-> "{tmp_dir}/uploads", data_dir |-> "/var/lib/{api_slug}"]

BaseRaw ==
    [name |-> "My API", slug |-> "acme", http_scheme |-> "http",
     bind_host |-> "localhost", port |-> 8000, version |-> "v1",
     prefix |-> "/api/{api_version}", gzip_min_size |-> 512,
     behind_proxy |-> FALSE, behind_cf_proxy |-> FALSE, dev |-> [reload |-> FALSE],
     security |-> [ssl |-> [enabled |-> PyBool(FALSE)]],
     docs |-> BaseDocs, paths |-> BasePaths]

Started ==
    /\ pc = "_check_args"
    /\ values = raw
    /\ data = [x \in {} |-> ""]
    /\ errors = {}
    /\ exc = "none"
    /\ log = <<>>
    /\ cfg = [x \in {} |-> ""]
    /\ setattr = <<"none", "none">>

\* launch contexts: any program, any argument vector, the raw fields the
\* launch override reads or writes
InitArgs ==
    /\ \E prog \in Programs, args \in ArgVectors : argv = <<prog>> \o args
    /\ \E scheme \in RawSchemes, present \in BOOLEAN, en \in RawEnabled, port \in RawPorts :
          LET r == [BaseRaw EXCEPT !.http_scheme = scheme, !.port = port,
                                   !.security = [ssl |-> [enabled |-> en]]]
          IN  raw = IF present \/ scheme = "https" THEN r ELSE Drop(r, "http_scheme")
    /\ cls = "FrozenApiConfig"
    /\ Started

\* raw settings: the templated fields and the fields they refer to, started
\* outside a launcher
InitTemplates ==
    /\ argv = <<"main.py">>
    /\ \E name \in RawNames, slug \in RawSlugs, slugPresent \in BOOLEAN,
          version \in RawVersions, prefix \in RawPrefixes, enabled \in BOOLEAN,
          openapi \in RawOpenapiUrls, tmp \in RawTmpDirs, uploads \in RawUploadsDirs :
          LET r == [BaseRaw EXCEPT !.name = name, !.slug = slug, !.version = version,
                                   !.prefix = prefix,
                                   !.docs = [BaseDocs EXCEPT !.enabled = enabled,
                                                             !.openapi_url = openapi],
                                   !.paths = [BasePaths EXCEPT !.tmp_dir = tmp,
                                                               !.uploads_dir = uploads]]
          IN  raw = IF slugPresent \/ slug # "acme" THEN r ELSE Drop(r, "slug")
    /\ cls \in {"ApiConfig", "FrozenApiConfig"}
    /\ Started

Init == InitArgs \/ InitTemplates

-----------------------------------------------------------------------------
(* One construction, step by step.                                         *)

\* the declared fields in declaration order, each naming the step after it
NextStep(step) ==
    CASE step = "_check_args" -> "name"
      [] step = "name" -> "slug"
      [] step = "slug" -> "http_scheme"
      [] step = "http_scheme" -> "bind_host"
      [] step = "bind_host" -> "port"
      [] step = "port" -> "version"
      [] step = "version" -> "prefix"
      [] step = "prefix" -> "gzip_min_size"
      [] step = "gzip_min_size" -> "security"
      [] step = "security" -> "docs"
      [] step = "docs" -> "paths"
      [] step = "paths" -> "finish"

\* The "before" model validator runs on the raw mapping before any field is
\* validated.  A ValueError (int() of a port) is a validation error of the
\* whole model; an IndexError leaves the constructor uncaught.
CheckArgs ==
    /\ pc = "_check_args"
    /\ LET r == check_args(raw, argv)
       IN  /\ values' = r.values
           /\ exc' = IF r.exc = "ValueError" THEN "ValidationError" ELSE r.exc
           /\ pc' = IF r.exc = "none" THEN NextStep("_check_args")
                    ELSE IF r.exc = "ValueError" THEN "failed" ELSE "crashed"
    /\ log' = Append(log, "_check_args")
    /\ UNCHANGED <<argv, raw, cls, data, errors, cfg, setattr>>

\* The outcome r of validating field f: the value enters info.data, or the
\* error is collected, or the exception ends the construction.
Validated(f, r) ==
    /\ pc = f
    /\ data' = IF r.err = "none" THEN Put(data, f, r.v) ELSE data
    /\ errors' = IF r.err = "invalid" THEN errors \cup {f} ELSE errors
    /\ exc' = IF r.err \in {"none", "invalid"} THEN exc ELSE r.err
    /\ pc' = IF r.err \in {"none", "invalid"} THEN NextStep(f) ELSE "crashed"
    /\ log' = Append(log, f)
    /\ UNCHANGED <<argv, raw, cls, values, cfg, setattr>>

ValidateName == Validated("name", StrField(values, "name", NameMinLen, NameMaxLen))

ValidateSlug == Validated("slug", SlugField(values, data))

ValidateHttpScheme == Validated("http_scheme", SchemeField(values))

ValidateBindHost ==
    Validated("bind_host", StrField(values, "bind_host", NameMinLen, NameMaxLen))

ValidatePort == Validated("port", PortField(values))

ValidateVersion ==
    Validated("version", StrField(values, "version", VersionMinLen, VersionMaxLen))

ValidatePrefix == Validated("prefix", PrefixField(values, data))

\* gzip_min_size, and with it behind_proxy, behind_cf_proxy and dev, which
\* carry no constraint the model reads
ValidateGzipMinSize == Validated("gzip_min_size", GzipField(values))

ValidateSecurity == Validated("security", SecurityField(values))

ValidateDocs == Validated("docs", DocsField(values, data))

ValidatePaths == Validated("paths", PathsField(values, data))

\* The instance of class c: the validated fields, and the fields without a
\* constraint of their own (behind_proxy, behind_cf_proxy, dev) as given.
Construct(info, vals, c) ==
    [x \in (DOMAIN info) \cup {"behind_proxy", "behind_cf_proxy", "dev", "class"} |->
        IF x = "class" THEN c
        ELSE IF x \in DOMAIN info THEN info[x]
        ELSE vals[x]]

\* The instance is built when no field failed; otherwise ValidationError.
Finish ==
    /\ pc = "finish"
    /\ IF errors = {}
       THEN /\ cfg' = Construct(data, values, cls)
            /\ pc' = "built"
            /\ exc' = exc
       ELSE /\ cfg' = cfg
            /\ pc' = "failed"
            /\ exc' = "ValidationError"
    /\ UNCHANGED <<argv, raw, cls, values, data, errors, log, setattr>>

-----------------------------------------------------------------------------
(* Attribute assignment on the built instance.                             *)

\* model_config of the root class: FrozenApiConfig sets frozen=True,
\* ApiConfig does not
RootFrozen(class) == class = "FrozenApiConfig"

\* FrozenDocsConfig and FrozenPathsConfig reject assignment
SubConfigFrozen(class) == class \in {"FrozenDocsConfig", "FrozenPathsConfig"}

SetAttrTargets == {"root", "docs", "paths"}

\* the record an assignment to target t would produce
Assigned(t) ==
    CASE t = "root" -> [cfg EXCEPT !["port"] = 1]
      [] t = "docs" -> [cfg EXCEPT !["docs"] = [cfg["docs"] EXCEPT !.openapi_url = "/changed"]]
      [] t = "paths" -> [cfg EXCEPT !["paths"] = [cfg["paths"] EXCEPT !.tmp_dir = "/changed"]]

TargetFrozen(t) ==
    IF t = "root" THEN RootFrozen(cfg["class"]) ELSE SubConfigFrozen(cfg[t].class)

\* obj.field = value: a frozen instance raises and keeps its value
SetAttr ==
    /\ pc = "built"
    /\ \E t \in SetAttrTargets :
          IF TargetFrozen(t)
          THEN /\ setattr' = <<t, "rejected">>
               /\ cfg' = cfg
          ELSE /\ setattr' = <<t, "applied">>
               /\ cfg' = Assigned(t)
    /\ UNCHANGED <<argv, raw, cls, pc, values, data, errors, exc, log>>

Next ==
    \/ CheckArgs
    \/ ValidateName
    \/ ValidateSlug
    \/ ValidateHttpScheme
    \/ ValidateBindHost
    \/ ValidatePort
    \/ ValidateVersion
    \/ ValidatePrefix
    \/ ValidateGzipMinSize
    \/ ValidateSecurity
    \/ ValidateDocs
    \/ ValidatePaths
    \/ Finish
    \/ SetAttr

Spec == Init /\ [][Next]_vars

-----------------------------------------------------------------------------
(* Vocabulary of the properties, defined on the inputs and not through the *)
(* operators above.                                                        *)

\* _check_args has returned (it is the first step, and "name" follows it)
ArgsReturned == Len(log) >= 1 /\ (Len(log) = 1 => pc = "name")

\* a: the construction has run step a
Ran(a) == \E i \in 1..Len(log) : log[i] = a

\* whenever step b has run, step a ran before it
RanBefore(a, b) ==
    \A j \in 1..Len(log) : log[j] = b => \E i \in 1..(j - 1) : log[i] = a

\* the program name is uvicorn, fastapi or gunicorn (possibly with a path)
Recognized(prog) ==
    \E n \in {"uvicorn", "fastapi", "gunicorn"} :
        Len(prog) >= Len(n) /\ SubSeq(prog, Len(prog) - Len(n) + 1, Len(prog)) = n

SslFlagAt(i) == Len(argv[i]) >= 5 /\ SubSeq(argv[i], 1, 5) = "--ssl"

HostFlagAt(i) ==
    \/ (Len(argv[i]) >= 7 /\ SubSeq(argv[i], 1, 7) = "--host=")
    \/ (argv[i] = "--host" /\ i < Len(argv))

PortFlagAt(i) ==
    \/ (Len(argv[i]) >= 7 /\ SubSeq(argv[i], 1, 7) = "--port=")
    \/ (argv[i] = "--port" /\ i < Len(argv))

\* VALUE of the flag at i: of "--key=VALUE" the text after the "=" up to a
\* further "=", of "--key VALUE" the next argument
FlagValueAt(i) ==
    IF argv[i] \in {"--host", "--port"} THEN argv[i + 1]
    ELSE LET v == SubSeq(argv[i], 8, Len(argv[i]))
         IN  IF \E k \in 1..Len(v) : Char(v, k) = "="
             THEN SubSeq(v, 1, (CHOOSE k \in 1..Len(v) :
                                   Char(v, k) = "=" /\ \A m \in 1..(k - 1) : Char(v, m) # "=") - 1)
             ELSE v

Args == 2..Len(argv)

LastHostFlag == CHOOSE i \in Args : HostFlagAt(i) /\ \A j \in Args : j > i => ~HostFlagAt(j)
LastPortFlag == CHOOSE i \in Args : PortFlagAt(i) /\ \A j \in Args : j > i => ~PortFlagAt(j)

\* the raw scheme, http when the raw mapping has none
RawScheme == IF "http_scheme" \in DOMAIN raw THEN raw["http_scheme"] ELSE "http"

\* the configuration as the constructor returned it, no attribute assigned
\* since
Resolved == pc = "built" /\ \A x \in DOMAIN data : cfg[x] = data[x]

-----------------------------------------------------------------------------
\* C1: in every resolved configuration http_scheme is https whenever TLS is
\* enabled by either trigger: the validated security sub-config has ssl
\* enabled, or (under a recognized launcher) an argument begins with --ssl.
C1_HttpsWheneverTls ==
    Resolved =>
        ( ( \/ cfg["security"].ssl.enabled
            \/ (Recognized(argv[1]) /\ \E i \in Args : SslFlagAt(i)) )
          => cfg["http_scheme"] = "https" )

C3_DefaultBindHost ==
    ( /\ Len(log) >= 1
      /\ Recognized(argv[1])
      /\ \A i \in Args : ~(Len(argv[i]) >= 6 /\ SubSeq(argv[i], 1, 6) = "--host")
      /\ ~(Len(log) = 1 /\ pc = "failed") )
    => /\ exc # "IndexError"
       /\ values["bind_host"] =
              IF Recognized(argv[1]) /\ EndsWith(argv[1], "fastapi")
                 /\ Len(argv) >= 2 /\ argv[2] = "run"
              THEN "0.0.0.0" ELSE "127.0.0.1"

-----------------------------------------------------------------------------
\* s with every occurrence of the text tok replaced by val, left to right
RECURSIVE ReplaceAll(_, _, _)
ReplaceAll(s, tok, val) ==
    IF Len(s) < Len(tok) THEN s
    ELSE IF SubSeq(s, 1, Len(tok)) = tok
    THEN val \o ReplaceAll(SubSeq(s, Len(tok) + 1, Len(s)), tok, val)
    ELSE Char(s, 1) \o ReplaceAll(Tail(s), tok, val)

HasText(s, t) == \E i \in 1..Len(s) : i + Len(t) - 1 <= Len(s) /\ SubSeq(s, i, i + Len(t) - 1) = t

\* C5: the steps of one resolution pass run in an order that respects every
\* dependency: name before slug, version before prefix, prefix before the
\* docs expansion, slug before the paths expansion, and security validated
\* before the scheme override (_check_args outside a launcher) reads it.
C5_DependencyOrder ==
    /\ RanBefore("name", "slug")
    /\ RanBefore("version", "prefix")
    /\ RanBefore("prefix", "docs")
    /\ RanBefore("slug", "paths")
    /\ ~Recognized(argv[1]) => RanBefore("security", "_check_args")

\* C6: once the paths step has run with the slug resolved, uploads_dir is
\* the raw one with the slug placeholder expanded if it has one, else with
\* {tmp_dir} replaced by the expanded tmp_dir, else unchanged; with both
\* placeholders the step succeeds with the slug-based expansion.
C6_UploadsDir ==
    (Ran("paths") /\ "slug" \in DOMAIN data) =>
        LET tmp == ReplaceAll(raw["paths"].tmp_dir, "{api_slug}", data["slug"])
            upl == raw["paths"].uploads_dir
        IN  /\ exc = "none"
            /\ "paths" \in DOMAIN data
            /\ data["paths"].tmp_dir = tmp
            /\ data["paths"].uploads_dir =
                   IF HasText(upl, "{api_slug}") THEN ReplaceAll(upl, "{api_slug}", data["slug"])
                   ELSE IF HasText(upl, "{tmp_dir}") THEN ReplaceAll(upl, "{tmp_dir}", tmp)
                   ELSE upl

\* C7 as stated: every resolved configuration (its version is then
\* available) has a prefix without the text {api_version}.
C7_NoTokenLeft ==
    Resolved => ~HasText(cfg["prefix"], "{api_version}")

\* C7 amended: when the prefix is resolved with a version available, the
\* version holds no brace and the raw prefix no doubled brace, the resolved
\* prefix is the stripped raw prefix with every {api_version} replaced by the
\* version, and holds no {api_version}.
C7_TokenExpandedOnce ==
    ( /\ "prefix" \in DOMAIN data
      /\ "version" \in DOMAIN data
      /\ ~HasText(data["version"], "{") /\ ~HasText(data["version"], "}")
      /\ ~HasText(raw["prefix"], "{{") /\ ~HasText(raw["prefix"], "}}") )
    => /\ data["prefix"] = ReplaceAll(Strip(raw["prefix"]), "{api_version}", data["version"])
       /\ ~HasText(data["prefix"], "{api_version}")

\* C7 witness: a built configuration whose raw prefix held the placeholder
\* and whose prefix holds the version in its place.
C7_Witness ==
    /\ Resolved
    /\ raw["prefix"] = "/api/{api_version}"
    /\ raw["version"] = "v2"
    /\ cfg["prefix"] = "/api/v2"

\* C8: once the slug step has run with name validated and the raw slug
\* absent or empty, the slug is accepted and is the name lower-cased,
\* trimmed, with each space, underscore and dot replaced by a hyphen.
C8_SlugDerivedFromName ==
    ( /\ Ran("slug")
      /\ "name" \in DOMAIN data
      /\ ("slug" \notin DOMAIN raw \/ raw["slug"] = "") )
    => /\ "slug" \notin errors
       /\ "slug" \in DOMAIN data
       /\ data["slug"] =
              ReplaceAll(ReplaceAll(ReplaceAll(Strip(Lower(data["name"])), " ", "-"), "_", "-"), ".", "-")

\* C9: every configuration the constructor returns has a port p with
\* 80 <= p < 65536, the raw one or the one of the last --port flag under a
\* launcher; when the port handed to validation is outside that range the
\* construction ends without a configuration.
C9_PortInRange ==
    /\ Resolved =>
          /\ cfg["port"] >= 80 /\ cfg["port"] < 65536
          /\ cfg["port"] =
                 IF Recognized(argv[1]) /\ \E i \in Args : PortFlagAt(i)
                 THEN DigitsValue(FlagValueAt(LastPortFlag))
                 ELSE raw["port"]
    /\ (Ran("port") /\ (values["port"] < 80 \/ values["port"] >= 65536)) =>
          /\ pc # "built"
          /\ DOMAIN cfg = {}
          /\ pc = "finish" => errors # {}

\* C9 witness: a built configuration whose port is the one of a --port flag
\* and not the raw one.
C9_Witness ==
    /\ Resolved
    /\ Recognized(argv[1])
    /\ \E i \in Args : PortFlagAt(i)
    /\ cfg["port"] # raw["port"]
    /\ cfg["port"] = 8443

\* C10: on a built FrozenApiConfig every attribute assignment, on the root
\* record or on its docs and paths records, is rejected and leaves the
\* configuration unchanged; the docs and paths records of every built
\* configuration are the frozen classes, and assignments to them are
\* rejected whether or not their placeholder expansion ran.
C10_FrozenRejectsAssignment ==
    /\ [][ pc = "built" =>
             /\ cls = "FrozenApiConfig" =>
                    (cfg' = cfg /\ setattr'[2] # "applied")
             /\ (setattr' # setattr /\ setattr'[1] \in {"docs", "paths"}) =>
                    (cfg' = cfg /\ setattr'[2] = "rejected") ]_vars
    /\ [](pc = "built" =>
             /\ cfg["docs"].class = "FrozenDocsConfig"
             /\ cfg["paths"].class = "FrozenPathsConfig")

\* C10 witness: an assignment to the docs record of a built FrozenApiConfig
\* whose docs expansion did not run (docs disabled) was rejected.
C10_Witness ==
    /\ pc = "built"
    /\ cls = "FrozenApiConfig"
    /\ ~raw["docs"].enabled
    /\ setattr = <<"docs", "rejected">>
    /\ cfg["docs"].openapi_url = raw["docs"].openapi_url

====
